---- MODULE Spec2Model ----
(***************************************************************************)
(* Model of the price-tracker: the retrying HTTP client, the orchestrator  *)
(* (main), the three site extractors and the price normalisation they use. *)
(* Text is a sequence of one-character strings, so that the regular        *)
(* expressions and the Decimal conversions of the source are computed      *)
(* character by character.                                                 *)
(***************************************************************************)
EXTENDS Integers, Sequences, FiniteSets, TLC

VARIABLES
    retries,     \* config.RETRIES of this run
    mainpc,      \* position of main()
    created,     \* number of scraper coroutines main has created
    pc,          \* per pipeline: position of the scraper coroutine
    attempt,     \* per pipeline: tenacity attempt_number (already the next one during a sleep)
    gets,        \* per pipeline: number of session.get calls made so far
    waits,       \* per pipeline: the backoff sleeps of the fetch call, in order
    lastErr,     \* per pipeline: the exception of the latest failed attempt
    response,    \* per pipeline: what asyncio.gather reports for the coroutine
    results,     \* main's results list
    closed,      \* _session.closed
    releases,    \* number of times the aiohttp session was really closed
    saved,       \* what main wrote to the snapshot / history files
    calls,       \* number of fetch calls started on the client
    closeCalls,  \* number of calls of HTTPClient.close
    text,        \* input of the price normaliser run
    origin,      \* the decimal value the input text renders, or None
    ppc,         \* position of the price normaliser run
    parsed,      \* result of parse_price(text)
    amz,         \* result of the amazon normalisation of text
    html,        \* input of the extractor run
    xpc,         \* position of the extractor run
    record       \* result of the extractor run

mainVars  == <<retries, mainpc, created, pc, attempt, gets, waits, lastErr,
               response, results, closed, releases, saved, calls, closeCalls>>
priceVars == <<text, origin, ppc, parsed, amz>>
extVars   == <<html, xpc, record>>
vars      == <<mainVars, calls, closeCalls, priceVars, extVars>>

(***************************************************************************)
(* Bounds of the model.                                                    *)
(***************************************************************************)
MaxRetries == 4      \* RETRIES is drawn from 1..MaxRetries
MaxTokens  == 3      \* a normaliser input is made of at most MaxTokens tokens
MaxNodes   == 2      \* a page has at most MaxNodes elements

(***************************************************************************)
(* Characters and strings.                                                 *)
(***************************************************************************)
EURO == "€"
NBSP == "nbsp"                       \* U+00A0, one character
DigitChars == <<"0", "1", "2", "3", "4", "5", "6", "7", "8", "9">>
Digit == {DigitChars[i] : i \in 1..10}
IsDigit(c) == c \in Digit
DigitVal(c) == (CHOOSE i \in 1..10 : DigitChars[i] = c) - 1
DigitChar(n) == DigitChars[n + 1]
IsSpace(c) == c \in {" ", NBSP}

None == [type |-> "None"]
InvalidOperation == [type |-> "InvalidOperation"]

Slice(s, i, j) == SubSeq(s, i, j)                      \* s[i..j], 1-based

StartsWithAt(s, i, pat) ==
    /\ i + Len(pat) - 1 <= Len(s)
    /\ \A k \in 1..Len(pat) : s[i + k - 1] = pat[k]

\* str.replace(pat, rep): every non-overlapping occurrence, left to right
RECURSIVE ReplaceFrom(_, _, _, _)
ReplaceFrom(s, i, pat, rep) ==
    IF i > Len(s) THEN <<>>
    ELSE IF StartsWithAt(s, i, pat)
         THEN rep \o ReplaceFrom(s, i + Len(pat), pat, rep)
         ELSE <<s[i]>> \o ReplaceFrom(s, i + 1, pat, rep)
Replace(s, pat, rep) == ReplaceFrom(s, 1, pat, rep)

\* str.strip()
Strip(s) ==
    LET keep == {i \in 1..Len(s) : ~IsSpace(s[i])}
    IN  IF keep = {} THEN <<>>
        ELSE LET lo == CHOOSE i \in keep : \A j \in keep : i <= j
                 hi == CHOOSE i \in keep : \A j \in keep : j <= i
             IN  Slice(s, lo, hi)

Contains(s, c) == \E i \in 1..Len(s) : s[i] = c

RECURSIVE Filter(_, _)
Filter(s, keepSet) ==
    IF s = <<>> THEN <<>>
    ELSE (IF Head(s) \in keepSet THEN <<Head(s)>> ELSE <<>>) \o Filter(Tail(s), keepSet)

(***************************************************************************)
(* decimal.Decimal, non-negative, exact: the digits before and after the   *)
(* point.                                                                  *)
(***************************************************************************)
RECURSIVE StripLeadingZeros(_)
StripLeadingZeros(ds) ==
    IF ds # <<>> /\ Head(ds) = "0" THEN StripLeadingZeros(Tail(ds)) ELSE ds

RECURSIVE StripTrailingZeros(_)
StripTrailingZeros(ds) ==
    IF ds # <<>> /\ ds[Len(ds)] = "0"
    THEN StripTrailingZeros(SubSeq(ds, 1, Len(ds) - 1)) ELSE ds

\* Decimal(s) for s made of digits and periods
Decimal(s) ==
    LET dots == {i \in 1..Len(s) : s[i] = "."}
        ok   == /\ \A i \in 1..Len(s) : IsDigit(s[i]) \/ s[i] = "."
                /\ Cardinality(dots) <= 1
                /\ \E i \in 1..Len(s) : IsDigit(s[i])
    IN  IF ~ok THEN InvalidOperation
        ELSE IF dots = {} THEN [type |-> "Decimal", int |-> s, frac |-> <<>>]
        ELSE LET d == CHOOSE i \in dots : TRUE
             IN  [type |-> "Decimal", int |-> SubSeq(s, 1, d - 1),
                  frac |-> SubSeq(s, d + 1, Len(s))]

\* Decimal.__eq__: numeric equality
DecEq(a, b) ==
    /\ StripLeadingZeros(a.int) = StripLeadingZeros(b.int)
    /\ StripTrailingZeros(a.frac) = StripTrailingZeros(b.frac)

\* val < 1000
DecLessThan1000(v) == Len(StripLeadingZeros(v.int)) <= 3

\* digits + 1
RECURSIVE Increment(_)
Increment(ds) ==
    IF ds = <<>> THEN <<"1">>
    ELSE LET last == ds[Len(ds)]
             init == SubSeq(ds, 1, Len(ds) - 1)
         IN  IF last = "9" THEN Increment(init) \o <<"0">>
             ELSE init \o <<DigitChar(DigitVal(last) + 1)>>

\* format(dec, ".2f"): two decimals, ROUND_HALF_EVEN of the default context
Format2f(v) ==
    LET f      == v.frac \o <<"0", "0">>
        kept   == StripLeadingZeros(v.int) \o SubSeq(f, 1, 2)
        rest   == SubSeq(f, 3, Len(f))
        first  == IF rest = <<>> THEN 0 ELSE DigitVal(rest[1])
        tailNZ == \E i \in 2..Len(rest) : rest[i] # "0"
        odd    == DigitVal(kept[Len(kept)]) % 2 = 1
        up     == first > 5 \/ (first = 5 /\ (tailNZ \/ odd))
        r0     == IF up THEN Increment(kept) ELSE kept
        r      == IF Len(r0) < 3
                  THEN [i \in 1..(3 - Len(r0)) |-> "0"] \o r0 ELSE r0
    IN  SubSeq(r, 1, Len(r) - 2) \o <<".">> \o SubSeq(r, Len(r) - 1, Len(r))

\* f"€{dec:.2f}"
EuroPrice(v) == <<EURO>> \o Format2f(v)

TitleNotFound == <<"T","i","t","l","e"," ","n","o","t"," ","f","o","u","n","d">>
PriceNotFound == <<"P","r","i","c","e"," ","n","o","t"," ","f","o","u","n","d">>
PriceParseError ==
    <<"P","r","i","c","e"," ","p","a","r","s","e"," ","e","r","r","o","r">>

(***************************************************************************)
(* scraper/phoneclick.py: PRICE_REGEX and parse_price.                     *)
(***************************************************************************)
DigitsAt(s, i, n) == i + n - 1 <= Len(s) /\ \A k \in 0..(n - 1) : IsDigit(s[i + k])

\* (?:\.\d{3}) repeated k times from position j
GroupsAt(s, j, k) ==
    \A g \in 0..(k - 1) :
        /\ j + 4 * g <= Len(s)
        /\ s[j + 4 * g] = "."
        /\ DigitsAt(s, j + 4 * g + 1, 3)

\* ,\d{2} at position j
CentsAt(s, j) == j <= Len(s) /\ s[j] = "," /\ DigitsAt(s, j + 1, 2)

\* The match of PRICE_REGEX that starts at position i: the position after
\* it, or 0 when there is none.  \d{1,3} and the group repetition are greedy:
\* the longest digit prefix is tried first, then the most groups.
PriceRegexMatchAt(s, i) ==
    LET ways == {w \in (1..3) \X (0..(Len(s) \div 4)) :
                    /\ DigitsAt(s, i, w[1])
                    /\ GroupsAt(s, i + w[1], w[2])
                    /\ CentsAt(s, i + w[1] + 4 * w[2])}
    IN  IF ways = {} THEN 0
        ELSE LET w == CHOOSE w \in ways :
                        \A v \in ways : v[1] < w[1] \/ (v[1] = w[1] /\ v[2] <= w[2])
             IN  i + w[1] + 4 * w[2] + 3

\* PRICE_REGEX.findall(s): the non-overlapping matches, left to right
RECURSIVE FindAllFrom(_, _)
FindAllFrom(s, i) ==
    IF i > Len(s) THEN <<>>
    ELSE LET e == PriceRegexMatchAt(s, i)
         IN  IF e = 0 THEN FindAllFrom(s, i + 1)
             ELSE <<SubSeq(s, i, e - 1)>> \o FindAllFrom(s, e)
PRICE_REGEX_findall(s) == FindAllFrom(s, 1)

NbspEntity == <<"&", "n", "b", "s", "p", ";">>

\* the conversion without the removal of the thousands separators
MatchToDecimalKeepDots(m) == Decimal(Replace(m, <<",">>, <<".">>))

\* Decimal(raw_price_str.replace(".", "").replace(",", "."))
MatchToDecimal(m) == Decimal(Replace(Replace(m, <<".">>, <<>>), <<",">>, <<".">>))

\* the loop without the threshold test: the last match is returned
ScanReversedNoThreshold(matches, i) ==
    IF i = 0 THEN None ELSE MatchToDecimal(matches[i])

\* the reversed(matches) loop: the value returned by the loop, or None when
\* the loop ends without returning
RECURSIVE ScanReversed(_, _)
ScanReversed(matches, i) ==
    IF i = 0 THEN None
    ELSE LET val == MatchToDecimal(matches[i])
         IN  IF val.type = "InvalidOperation" THEN ScanReversed(matches, i - 1)
             ELSE IF DecLessThan1000(val) THEN val
             ELSE ScanReversed(matches, i - 1)

parse_price(t) ==
    LET clean_text == Strip(Replace(Replace(t, <<NBSP>>, <<" ">>), NbspEntity, <<" ">>))
        matches    == PRICE_REGEX_findall(clean_text)
    IN  IF matches = <<>> THEN None
        ELSE LET found == ScanReversed(matches, Len(matches))
             IN  IF found.type # "None" THEN found
                 ELSE LET last == MatchToDecimal(matches[Len(matches)])
                      IN  IF last.type = "InvalidOperation" THEN None ELSE last

(***************************************************************************)
(* scraper/amazon.py: the normalisation of the text of the price element.  *)
(***************************************************************************)
\* re.sub(r"[^\d,\.]", "", raw_txt)
AmazonCleaned(raw_txt) == Filter(raw_txt, Digit \cup {",", "."})

AmazonNormalized(cleaned) ==
    IF Contains(cleaned, ",") /\ Contains(cleaned, ".")
    THEN Replace(Replace(cleaned, <<".">>, <<>>), <<",">>, <<".">>)
    ELSE IF Contains(cleaned, ",")
    THEN Replace(cleaned, <<",">>, <<".">>)
    ELSE cleaned

\* dec = Decimal(normalized), or InvalidOperation
AmazonDec(raw_txt) == Decimal(AmazonNormalized(AmazonCleaned(raw_txt)))

\* the price field the amazon extractor derives from the element's text
AmazonPrice(raw_txt) ==
    LET dec == AmazonDec(raw_txt)
    IN  IF dec.type = "InvalidOperation" THEN PriceParseError ELSE EuroPrice(dec)

(***************************************************************************)
(* Inputs of the price normaliser runs: texts made of tokens, and the      *)
(* European renderings of decimal values.                                  *)
(***************************************************************************)
Tok1500  == <<"1", ".", "5", "0", "0", ",", "0", "0">>
Tok45    == <<"4", "5", ",", "0", "0">>
Tok12000 == <<"1", "2", ".", "0", "0", "0", ",", "0", "0">>
TokEU    == <<"1", ".", "2", "3", "4", ",", "5", "6">>
TokUS    == <<"1", ",", "2", "3", "4", ".", "5", "6">>
TokWord  == <<"a", "s", "k">>
Tokens   == {Tok1500, Tok45, Tok12000, TokEU, TokUS, TokWord,
             <<" ">>, <<EURO>>, <<NBSP>>}

RECURSIVE TextsOf(_)
TextsOf(n) ==
    IF n = 0 THEN {<<>>}
    ELSE LET shorter == TextsOf(n - 1)
         IN  shorter \cup {t \o k : t \in shorter, k \in Tokens}
Texts == TextsOf(MaxTokens)

RECURSIVE IntDigits(_)
IntDigits(n) ==
    IF n < 10 THEN <<DigitChar(n)>> ELSE IntDigits(n \div 10) \o <<DigitChar(n % 10)>>

\* the digits of the integer part with a dot before every group of three
RECURSIVE GroupThousands(_)
GroupThousands(ds) ==
    IF Len(ds) <= 3 THEN ds
    ELSE GroupThousands(SubSeq(ds, 1, Len(ds) - 3)) \o <<".">>
             \o SubSeq(ds, Len(ds) - 2, Len(ds))

\* European rendering: thousands dots, comma before the decimal digits
EuroRender(d) ==
    GroupThousands(d.int) \o (IF d.frac = <<>> THEN <<>> ELSE <<",">> \o d.frac)

RoundTripUnits == {0, 5, 45, 999, 1000, 1234, 12000, 1234567}
RoundTripFracs == {<<>>, <<"5">>, <<"0", "0">>, <<"5", "0">>, <<"5", "6">>, <<"0", "5">>}
RoundTripValues ==
    {[type |-> "Decimal", int |-> IntDigits(u), frac |-> f] :
        u \in RoundTripUnits, f \in RoundTripFracs}

Unset == [type |-> "Unset"]

IdlePrice ==
    /\ text = <<>> /\ origin = None /\ ppc = "off"
    /\ parsed = Unset /\ amz = Unset

InitPrice ==
    /\ \/ origin = None /\ text \in Texts
       \/ origin \in RoundTripValues /\ text = EuroRender(origin)
    /\ ppc = "input"
    /\ parsed = Unset
    /\ amz = Unset

\* parse_price(text)
ParsePrice ==
    /\ ppc = "input"
    /\ parsed = Unset
    /\ parsed' = parse_price(text)
    /\ UNCHANGED <<text, origin, ppc, amz, mainVars, extVars>>

\* the amazon extractor's normalisation of a price element holding text
AmazonNormalize ==
    /\ ppc = "input"
    /\ amz = Unset
    /\ amz' = [type |-> "Amazon", dec |-> AmazonDec(Strip(text)),
               price |-> AmazonPrice(Strip(text))]
    /\ UNCHANGED <<text, origin, ppc, parsed, mainVars, extVars>>

NextPrice == ParsePrice \/ AmazonNormalize

(***************************************************************************)
(* Parsed pages.  A page is the fetched text (empty or not) and, in        *)
(* document order, the elements BeautifulSoup finds in it.  An element has *)
(* a kind, the most specific selector of the extractors it satisfies, and  *)
(* its text (for the og:title meta element: its content attribute).        *)
(***************************************************************************)
TitleKinds == {"span#productTitle", "h1", "meta[og:title]", "title",
               "h1.caratteretitolo", "h1.product-title"}
PriceKinds == {"span.a-price>span.a-offscreen", "#corePrice_desktop span.a-offscreen",
               "span.a-offscreen", "ins", "span", "strong", "p"}

TagOf(kind) ==
    CASE kind \in {"h1", "h1.caratteretitolo", "h1.product-title"} -> "h1"
      [] kind \in {"span#productTitle", "span.a-price>span.a-offscreen",
                   "#corePrice_desktop span.a-offscreen", "span.a-offscreen",
                   "span"} -> "span"
      [] kind = "meta[og:title]" -> "meta"
      [] OTHER -> kind

PriceEuro45   == <<EURO, "4", "5", ",", "9", "9">>
PriceEuro1234 == <<"1", ".", "2", "3", "4", ",", "5", "6", " ", EURO>>
PriceNoDigits == <<"a", "s", "k">>
PriceBare45   == <<"4", "5", ",", "9", "9">>
PriceEuroThousands == <<EURO, "1", ".", "2", "3", "4", ",", "5", "6">>
TitleW        == <<"W">>
TitleDashed   == <<"A", " ", "-", " ", "B">>
TitleOnlyTail == <<"-", "B">>

Nodes ==
    {[kind |-> k, text |-> t] : k \in TitleKinds, t \in {<<>>, TitleW}}
    \cup {[kind |-> "title", text |-> t] : t \in {TitleDashed, TitleOnlyTail}}
    \cup {[kind |-> "meta[og:title]", text |-> <<" ">>]}
    \cup {[kind |-> k, text |-> t] :
             k \in PriceKinds, t \in {PriceEuro45, PriceEuro1234, PriceNoDigits}}
    \cup {[kind |-> k, text |-> PriceBare45] : k \in {"span.a-offscreen", "ins", "span", "p"}}
    \cup {[kind |-> k, text |-> PriceEuroThousands] : k \in {"span", "strong"}}

RECURSIVE NodeSeqs(_)
NodeSeqs(n) ==
    IF n = 0 THEN {<<>>}
    ELSE LET shorter == NodeSeqs(n - 1)
         IN  shorter \cup {d \o <<e>> : d \in shorter, e \in Nodes}

\* the bodies a fetch can return
Pages ==
    {[empty |-> FALSE, nodes |-> d] : d \in NodeSeqs(MaxNodes)}
    \cup {[empty |-> TRUE, nodes |-> <<>>]}

NoElement == [kind |-> "none", text |-> <<>>]

\* soup.find / soup.select_one: the first element, in document order, of
\* one of the kinds
First(nodes, kinds) ==
    LET hits == {i \in 1..Len(nodes) : nodes[i].kind \in kinds}
    IN  IF hits = {} THEN NoElement
        ELSE nodes[CHOOSE i \in hits : \A j \in hits : i <= j]

Found(el) == el.kind # "none"

H1Kinds == {"h1", "h1.caratteretitolo", "h1.product-title"}
OffscreenKinds == {"span.a-price>span.a-offscreen",
                   "#corePrice_desktop span.a-offscreen", "span.a-offscreen"}

\* el.get_text(strip=True)
GetTextStrip(el) == Strip(el.text)

Record(site, title, price) ==
    [type |-> "record", site |-> site, title |-> title, price |-> price,
     url |-> site]

(***************************************************************************)
(* scraper/amazon.py: scrape_amazon after the fetch.                       *)
(***************************************************************************)
ENDASH == "endash"                   \* U+2013, one character
TitleDelimiters == {":", "|", "-", ENDASH}

\* re.split(r"[:\|\-<U+2013>]", raw_head)[0]
BeforeFirstDelimiter(s) ==
    LET cuts == {i \in 1..Len(s) : s[i] \in TitleDelimiters}
    IN  IF cuts = {} THEN s
        ELSE SubSeq(s, 1, (CHOOSE i \in cuts : \A j \in cuts : i <= j) - 1)

AmazonTitle(nodes) ==
    LET el1 == First(nodes, {"span#productTitle"})
        t1  == IF Found(el1) THEN GetTextStrip(el1) ELSE <<>>
        el2 == First(nodes, H1Kinds)
        t2  == IF t1 # <<>> THEN t1
               ELSE IF Found(el2) THEN GetTextStrip(el2) ELSE t1
        el3 == First(nodes, {"meta[og:title]"})
        t3  == IF t2 # <<>> THEN t2
               ELSE IF Found(el3) /\ el3.text # <<>> THEN Strip(el3.text) ELSE t2
        el4 == First(nodes, {"title"})
        t4  == IF t3 # <<>> THEN t3
               ELSE IF Found(el4)
                    THEN Strip(BeforeFirstDelimiter(GetTextStrip(el4))) ELSE t3
    IN  IF t4 = <<>> THEN TitleNotFound ELSE t4

\* the element the three price selectors settle on
AmazonOffscreen(nodes) ==
    LET s1 == First(nodes, {"span.a-price>span.a-offscreen"})
        s2 == First(nodes, {"#corePrice_desktop span.a-offscreen"})
        s3 == First(nodes, OffscreenKinds)
    IN  IF Found(s1) THEN s1 ELSE IF Found(s2) THEN s2 ELSE s3

AmazonPriceField(nodes) ==
    LET offscreen == AmazonOffscreen(nodes)
    IN  IF Found(offscreen) THEN AmazonPrice(GetTextStrip(offscreen))
        ELSE PriceNotFound

scrape_amazon(page) ==
    IF page.empty THEN None
    ELSE Record("amazon.it", AmazonTitle(page.nodes), AmazonPriceField(page.nodes))

(***************************************************************************)
(* scraper/phoneclick.py: scrape_phoneclick after the fetch.               *)
(***************************************************************************)
\* title_el = find("h1", class_=cls) or find("h1"); a found element is
\* truthy whatever its text
H1Title(nodes, cls) ==
    LET byClass  == First(nodes, {cls})
        title_el == IF Found(byClass) THEN byClass ELSE First(nodes, H1Kinds)
    IN  IF Found(title_el) THEN GetTextStrip(title_el) ELSE TitleNotFound

\* soup.stripped_strings: the non-empty stripped texts, in document order
RECURSIVE StrippedStrings(_)
StrippedStrings(nodes) ==
    IF nodes = <<>> THEN <<>>
    ELSE LET e == Head(nodes)
             t == Strip(e.text)
         IN  (IF TagOf(e.kind) # "meta" /\ t # <<>> THEN <<t>> ELSE <<>>)
                 \o StrippedStrings(Tail(nodes))

\* the scan without the test for the euro symbol
RECURSIVE CandidatePricesAnyText(_)
CandidatePricesAnyText(strings) ==
    IF strings = <<>> THEN <<>>
    ELSE LET val == parse_price(Head(strings))
         IN  (IF val.type # "None" THEN <<val>> ELSE <<>>)
                 \o CandidatePricesAnyText(Tail(strings))

\* candidate_prices of the full-page scan
RECURSIVE CandidatePrices(_)
CandidatePrices(strings) ==
    IF strings = <<>> THEN <<>>
    ELSE LET text_string == Head(strings)
             val == IF Contains(text_string, EURO) THEN parse_price(text_string)
                    ELSE None
         IN  (IF val.type # "None" THEN <<val>> ELSE <<>>)
                 \o CandidatePrices(Tail(strings))

\* the choice by the threshold rule of parse_price: the last candidate
\* under 1000, else the last candidate
PickCandidateUnderThreshold(candidate_prices) ==
    LET under == {i \in 1..Len(candidate_prices) : DecLessThan1000(candidate_prices[i])}
    IN  IF under # {}
        THEN candidate_prices[CHOOSE i \in under : \A j \in under : j <= i]
        ELSE candidate_prices[Len(candidate_prices)]

\* which of the candidates the full-page scan takes
PickCandidate(candidate_prices) == candidate_prices[Len(candidate_prices)]

PhoneclickPrice(nodes) ==
    LET ins_tag  == First(nodes, {"ins"})
        fromIns  == IF Found(ins_tag) THEN parse_price(ins_tag.text) ELSE None
        candidate_prices == CandidatePrices(StrippedStrings(nodes))
    IN  IF fromIns.type # "None" THEN fromIns
        ELSE IF candidate_prices # <<>> THEN PickCandidate(candidate_prices)
        ELSE None

PhoneclickPriceField(nodes) ==
    LET price == PhoneclickPrice(nodes)
    IN  IF price.type # "None" THEN EuroPrice(price) ELSE PriceNotFound

scrape_phoneclick(page) ==
    Record("phoneclick.it", H1Title(page.nodes, "h1.caratteretitolo"),
           PhoneclickPriceField(page.nodes))

(***************************************************************************)
(* scraper/teknozone.py: scrape_teknozone after the fetch.                 *)
(***************************************************************************)
\* [el.get_text(strip=True) for el in find_all(["strong", "span"], string=re.compile("€"))]
RECURSIVE TextsWithEuro(_)
TextsWithEuro(nodes) ==
    IF nodes = <<>> THEN <<>>
    ELSE LET e == Head(nodes)
         IN  (IF TagOf(e.kind) \in {"strong", "span"} /\ Contains(e.text, EURO)
              THEN <<GetTextStrip(e)>> ELSE <<>>) \o TextsWithEuro(Tail(nodes))

RECURSIVE SkipSpaces(_, _)
SkipSpaces(s, j) == IF j <= Len(s) /\ IsSpace(s[j]) THEN SkipSpaces(s, j + 1) ELSE j

\* group(1) of the match of €\s*(\d+[.,]\d{2}) that starts at position i, or
\* None; \d+ is greedy
TeknoMatchAt(s, i) ==
    IF s[i] # EURO THEN None
    ELSE LET j    == SkipSpaces(s, i + 1)
             ways == {m \in 1..Len(s) :
                         /\ DigitsAt(s, j, m)
                         /\ j + m <= Len(s)
                         /\ s[j + m] \in {".", ","}
                         /\ DigitsAt(s, j + m + 1, 2)}
         IN  IF ways = {} THEN None
             ELSE LET m == CHOOSE m \in ways : \A n \in ways : n <= m
                  IN  [type |-> "Match", group1 |-> SubSeq(s, j, j + m + 2)]

\* re.search: the leftmost match
TeknoSearch(s) ==
    LET at == {i \in 1..Len(s) : TeknoMatchAt(s, i).type = "Match"}
    IN  IF at = {} THEN None
        ELSE TeknoMatchAt(s, CHOOSE i \in at : \A k \in at : i <= k)

\* the price of the first text with a match, or "Price not found"
RECURSIVE TeknoFirstPrice(_)
TeknoFirstPrice(texts_with_euro) ==
    IF texts_with_euro = <<>> THEN PriceNotFound
    ELSE LET price_match == TeknoSearch(Head(texts_with_euro))
         IN  IF price_match.type = "Match"
             THEN EuroPrice(Decimal(Replace(price_match.group1, <<",">>, <<".">>)))
             ELSE TeknoFirstPrice(Tail(texts_with_euro))

scrape_teknozone(page) ==
    Record("teknozone.it", H1Title(page.nodes, "h1.product-title"),
           TeknoFirstPrice(TextsWithEuro(page.nodes)))

(***************************************************************************)
(* Extractor runs: one page, each extractor applied to it.                 *)
(***************************************************************************)
Sites == {"amazon", "phoneclick", "teknozone"}
SiteOrder == <<"amazon", "phoneclick", "teknozone">>

Scrape(site, page) ==
    CASE site = "amazon"     -> scrape_amazon(page)
      [] site = "phoneclick" -> scrape_phoneclick(page)
      [] site = "teknozone"  -> scrape_teknozone(page)

NoPage == [empty |-> TRUE, nodes |-> <<>>]

IdleExt == html = NoPage /\ xpc = "off" /\ record = [s \in Sites |-> Unset]

InitExt ==
    /\ html \in Pages
    /\ xpc = "fetched"
    /\ record = [s \in Sites |-> Unset]

ExtractAmazon ==
    /\ xpc = "fetched" /\ record["amazon"] = Unset
    /\ record' = [record EXCEPT !["amazon"] = scrape_amazon(html)]
    /\ UNCHANGED <<html, xpc, mainVars, priceVars>>

ExtractPhoneclick ==
    /\ xpc = "fetched" /\ record["phoneclick"] = Unset
    /\ record' = [record EXCEPT !["phoneclick"] = scrape_phoneclick(html)]
    /\ UNCHANGED <<html, xpc, mainVars, priceVars>>

ExtractTeknozone ==
    /\ xpc = "fetched" /\ record["teknozone"] = Unset
    /\ record' = [record EXCEPT !["teknozone"] = scrape_teknozone(html)]
    /\ UNCHANGED <<html, xpc, mainVars, priceVars>>

NextExt == ExtractAmazon \/ ExtractPhoneclick \/ ExtractTeknozone

(***************************************************************************)
(* http_client.py: HTTPClient.fetch under the tenacity retry decorator,    *)
(* and HTTPClient.close.                                                   *)
(***************************************************************************)
\* the exceptions one attempt can end with: raise_for_status() on a 4xx/5xx
\* response, a connection failure, the per-attempt total timeout
StatusError     == "ClientResponseError"
ConnectionError == "ClientConnectionError"
TimeoutError    == "TimeoutError"
TransientErrors == {ConnectionError, TimeoutError}

\* aiohttp's exception classes: both are subclasses of aiohttp.ClientError
ClientErrors == {StatusError, ConnectionError}

\* retry=retry_if_exception_type((aiohttp.ClientError, asyncio.TimeoutError))
RetryIf(exc) == exc \in ClientErrors \/ exc = TimeoutError

\* stop=stop_after_attempt(RETRIES)
StopAfterAttempt(attempt_number, limit) == attempt_number >= limit

RECURSIVE Pow2(_)
Pow2(n) == IF n = 0 THEN 1 ELSE 2 * Pow2(n - 1)

Min(a, b) == IF a < b THEN a ELSE b
Max(a, b) == IF a > b THEN a ELSE b

\* the exponential wait without the max
WaitExponentialUncapped(attempt_number) == Max(1, Pow2(attempt_number - 1))

\* wait=wait_exponential(multiplier=1, min=1, max=10)
WaitExponential(attempt_number) == Max(1, Min(Pow2(attempt_number - 1), 10))

NoResponse == [type |-> "pending"]
Returned(v) == [type |-> "return", value |-> v]
Raised(exc, cause) == [type |-> "raise", exc |-> exc, cause |-> cause]

\* the bodies the sites serve in a run of main
SamplePage ==
    [empty |-> FALSE,
     nodes |-> <<[kind |-> "h1", text |-> TitleW],
                 [kind |-> "span.a-offscreen", text |-> PriceEuro45]>>]
MainPages == {NoPage, SamplePage}

\* what each scraper returns for each of these bodies
ScrapedFrom == [p \in Sites |-> [body \in MainPages |-> Scrape(p, body)]]

IdleMain ==
    /\ retries = 0 /\ mainpc = "off" /\ created = 0
    /\ pc = [p \in Sites |-> "off"]
    /\ attempt = [p \in Sites |-> 0]
    /\ gets = [p \in Sites |-> 0]
    /\ waits = [p \in Sites |-> <<>>]
    /\ lastErr = [p \in Sites |-> "none"]
    /\ response = [p \in Sites |-> NoResponse]
    /\ results = <<>> /\ closed = FALSE /\ releases = 0 /\ saved = Unset
    /\ calls = 0 /\ closeCalls = 0

\* main up to the construction of the HTTPClient
InitMain ==
    /\ retries \in 1..MaxRetries
    /\ mainpc = "create" /\ created = 0
    /\ pc = [p \in Sites |-> "uncreated"]
    /\ attempt = [p \in Sites |-> 0]
    /\ gets = [p \in Sites |-> 0]
    /\ waits = [p \in Sites |-> <<>>]
    /\ lastErr = [p \in Sites |-> "none"]
    /\ response = [p \in Sites |-> NoResponse]
    /\ results = <<>> /\ closed = FALSE /\ releases = 0 /\ saved = Unset
    /\ calls = 0 /\ closeCalls = 0

pipeVars == <<pc, attempt, gets, waits, lastErr, response>>

\* one turn of the loop of main that creates the scraper coroutines
CreateTask ==
    /\ mainpc = "create" /\ created < Len(SiteOrder)
    /\ created' = created + 1
    /\ pc' = [pc EXCEPT ![SiteOrder[created + 1]] = "created"]
    /\ UNCHANGED <<retries, mainpc, attempt, gets, waits, lastErr, response,
                   results, closed, releases, saved, calls, closeCalls, priceVars, extVars>>

\* session.get on a closed aiohttp session
SessionClosedError == "RuntimeError"

\* what tenacity does with the exception exc of attempt number attempt[p];
\* before a backoff sleep it moves on to the next attempt number
Retrying(p, exc) ==
    /\ lastErr' = [lastErr EXCEPT ![p] = exc]
    /\ IF ~RetryIf(exc)
       THEN /\ response' = [response EXCEPT ![p] = Raised(exc, exc)]
            /\ pc' = [pc EXCEPT ![p] = "done"]
            /\ UNCHANGED <<waits, attempt>>
       ELSE IF StopAfterAttempt(attempt[p], retries)
       THEN /\ response' = [response EXCEPT ![p] = Raised("RetryError", exc)]
            /\ pc' = [pc EXCEPT ![p] = "done"]
            /\ UNCHANGED <<waits, attempt>>
       ELSE /\ waits' = [waits EXCEPT ![p] = Append(@, WaitExponential(attempt[p]))]
            /\ attempt' = [attempt EXCEPT ![p] = @ + 1]
            /\ pc' = [pc EXCEPT ![p] = "sleep"]
            /\ UNCHANGED response

\* an attempt whose session.get call itself raises exc: the call is counted
\* and tenacity decides
AfterException(p, exc) ==
    /\ gets' = [gets EXCEPT ![p] = @ + 1]
    /\ Retrying(p, exc)
    /\ UNCHANGED <<retries, mainpc, created, results, closed, releases, saved,
                   calls, closeCalls, priceVars, extVars>>

\* asyncio.gather(*tasks, return_exceptions=True) starts the coroutines;
\* each begins its first attempt and calls session.get on the open session
Gather ==
    /\ mainpc = "create" /\ created = Len(SiteOrder)
    /\ mainpc' = "gather"
    /\ pc' = [p \in Sites |-> "inflight"]
    /\ attempt' = [p \in Sites |-> 1]
    /\ gets' = [p \in Sites |-> gets[p] + 1]
    /\ calls' = calls + Cardinality(Sites)
    /\ UNCHANGED <<retries, created, waits, lastErr, response,
                   results, closed, releases, saved, closeCalls, priceVars, extVars>>

\* the request in flight returns the body: fetch returns it and the scraper
\* runs to its return
FetchSucceeds(p) ==
    /\ mainpc = "gather" /\ pc[p] = "inflight"
    /\ \E body \in MainPages :
          response' = [response EXCEPT ![p] = Returned(ScrapedFrom[p][body])]
    /\ pc' = [pc EXCEPT ![p] = "done"]
    /\ UNCHANGED <<retries, mainpc, created, attempt, gets, waits, lastErr,
                   results, closed, releases, saved, calls, closeCalls, priceVars, extVars>>

\* the response arrives with a 4xx/5xx status: raise_for_status() raises
FetchStatusError(p) ==
    /\ mainpc = "gather" /\ pc[p] = "inflight"
    /\ Retrying(p, StatusError)
    /\ UNCHANGED <<retries, mainpc, created, gets, results, closed, releases,
                   saved, calls, closeCalls, priceVars, extVars>>

\* the request in flight fails with a connection error or runs into the
\* timeout
FetchTransientError(p) ==
    /\ mainpc = "gather" /\ pc[p] = "inflight"
    /\ \E exc \in TransientErrors : Retrying(p, exc)
    /\ UNCHANGED <<retries, mainpc, created, gets, results, closed, releases,
                   saved, calls, closeCalls, priceVars, extVars>>

\* the backoff sleep ends: the attempt calls session.get, which raises on a
\* closed session
Wake(p) ==
    /\ mainpc = "gather" /\ pc[p] = "sleep"
    /\ IF closed THEN AfterException(p, SessionClosedError)
       ELSE /\ gets' = [gets EXCEPT ![p] = @ + 1]
            /\ pc' = [pc EXCEPT ![p] = "inflight"]
            /\ UNCHANGED <<retries, mainpc, created, attempt, waits, lastErr,
                           response, results, closed, releases, saved, calls,
                           closeCalls, priceVars, extVars>>

\* the loop over responses: exceptions are logged, falsy values dropped
RECURSIVE CollectResults(_, _)
CollectResults(resp, i) ==
    IF i > Len(SiteOrder) THEN <<>>
    ELSE LET r == resp[SiteOrder[i]]
         IN  (IF r.type = "return" /\ r.value.type = "record"
              THEN <<r.value>> ELSE <<>>) \o CollectResults(resp, i + 1)

\* a gather that returns as soon as one coroutine has ended
CollectEarly ==
    /\ mainpc = "gather" /\ \E p \in Sites : pc[p] = "done"
    /\ results' = CollectResults(response, 1)
    /\ mainpc' = "close"
    /\ UNCHANGED <<retries, created, pipeVars, closed, releases, saved,
                   calls, closeCalls, priceVars, extVars>>

\* gather returns when every coroutine has ended; main builds results
Collect ==
    /\ mainpc = "gather" /\ \A p \in Sites : pc[p] = "done"
    /\ results' = CollectResults(response, 1)
    /\ mainpc' = "close"
    /\ UNCHANGED <<retries, created, pipeVars, closed, releases, saved,
                   calls, closeCalls, priceVars, extVars>>

\* close without the test of _session.closed
SessionCloseUnguarded ==
    /\ closed' = TRUE /\ releases' = releases + 1
    /\ closeCalls' = closeCalls + 1

\* HTTPClient.close: the session is closed unless it is closed already
SessionClose ==
    /\ IF ~closed THEN closed' = TRUE /\ releases' = releases + 1
       ELSE UNCHANGED <<closed, releases>>
    /\ closeCalls' = closeCalls + 1

\* finally: await client.close()
Close ==
    /\ mainpc = "close"
    /\ SessionClose
    /\ mainpc' = "save"
    /\ UNCHANGED <<retries, created, pipeVars, results, saved, calls, priceVars, extVars>>

\* the content of the snapshot and history files once written
Written(records) == [type |-> "written", records |-> records]

\* the snapshot and the history are written from results
Save ==
    /\ mainpc = "save"
    /\ saved' = Written(results)
    /\ mainpc' = "end"
    /\ UNCHANGED <<retries, created, pipeVars, results, closed, releases,
                   calls, closeCalls, priceVars, extVars>>

NextMain ==
    \/ CreateTask
    \/ Gather
    \/ \E p \in Sites : FetchSucceeds(p)
    \/ \E p \in Sites : FetchStatusError(p)
    \/ \E p \in Sites : FetchTransientError(p)
    \/ \E p \in Sites : Wake(p)
    \/ Collect
    \/ Close
    \/ Save

(***************************************************************************)
(* The HTTPClient on its own: a caller makes fetch calls and close calls   *)
(* on one client, in any order.                                            *)
(***************************************************************************)
MaxClientRetries == 6   \* RETRIES is drawn from 1..MaxClientRetries
MaxCalls         == 2   \* a caller makes at most MaxCalls fetch calls
MaxCloses        == 3   \* close is called at most MaxCloses times

\* the users of the client in these runs
ClientCallers == {"amazon"}

\* the client is constructed: the session is open, no call has been made
InitClient ==
    /\ retries \in 1..MaxClientRetries
    /\ mainpc = "client" /\ created = 0
    /\ pc = [p \in Sites |-> IF p \in ClientCallers THEN "idle" ELSE "off"]
    /\ attempt = [p \in Sites |-> 0]
    /\ gets = [p \in Sites |-> 0]
    /\ waits = [p \in Sites |-> <<>>]
    /\ lastErr = [p \in Sites |-> "none"]
    /\ response = [p \in Sites |-> NoResponse]
    /\ results = <<>> /\ closed = FALSE /\ releases = 0 /\ saved = Unset
    /\ calls = 0 /\ closeCalls = 0

\* await client.fetch(url): tenacity starts the first attempt
ClientFetch(p) ==
    /\ mainpc = "client" /\ pc[p] \in {"idle", "done"} /\ calls < MaxCalls
    /\ calls' = calls + 1
    /\ pc' = [pc EXCEPT ![p] = "get"]
    /\ attempt' = [attempt EXCEPT ![p] = 1]
    /\ waits' = [waits EXCEPT ![p] = <<>>]
    /\ lastErr' = [lastErr EXCEPT ![p] = "none"]
    /\ response' = [response EXCEPT ![p] = NoResponse]
    /\ UNCHANGED <<retries, mainpc, created, gets, results, closed, releases,
                   saved, closeCalls, priceVars, extVars>>

\* session.get on the open session: the request is sent and the attempt
\* awaits the response
ClientIssue(p) ==
    /\ mainpc = "client" /\ pc[p] = "get" /\ ~closed
    /\ gets' = [gets EXCEPT ![p] = @ + 1]
    /\ pc' = [pc EXCEPT ![p] = "inflight"]
    /\ UNCHANGED <<retries, mainpc, created, attempt, waits, lastErr, response,
                   results, closed, releases, saved, calls, closeCalls,
                   priceVars, extVars>>

\* session.get on the closed session raises RuntimeError("Session is
\* closed") on entry
ClientAttemptOnClosed(p) ==
    /\ mainpc = "client" /\ pc[p] = "get" /\ closed
    /\ AfterException(p, SessionClosedError)

\* the request in flight returns the body, whether or not close was called
\* meanwhile: fetch returns it
ClientAttemptSucceeds(p) ==
    /\ mainpc = "client" /\ pc[p] = "inflight"
    /\ \E body \in MainPages :
          response' = [response EXCEPT ![p] = Returned(body)]
    /\ pc' = [pc EXCEPT ![p] = "done"]
    /\ UNCHANGED <<retries, mainpc, created, attempt, gets, waits, lastErr,
                   results, closed, releases, saved, calls, closeCalls,
                   priceVars, extVars>>

\* the request in flight ends with an exception, whether or not close was
\* called meanwhile
ClientAttemptFails(p) ==
    /\ mainpc = "client" /\ pc[p] = "inflight"
    /\ \E exc \in {StatusError} \cup TransientErrors : Retrying(p, exc)
    /\ UNCHANGED <<retries, mainpc, created, gets, results, closed, releases,
                   saved, calls, closeCalls, priceVars, extVars>>

\* the backoff sleep ends: the next attempt is about to call session.get
ClientWake(p) ==
    /\ mainpc = "client" /\ pc[p] = "sleep"
    /\ pc' = [pc EXCEPT ![p] = "get"]
    /\ UNCHANGED <<retries, mainpc, created, attempt, gets, waits, lastErr, response,
                   results, closed, releases, saved, calls, closeCalls,
                   priceVars, extVars>>

\* await client.close()
ClientClose ==
    /\ mainpc = "client" /\ closeCalls < MaxCloses
    /\ SessionClose
    /\ UNCHANGED <<retries, mainpc, created, pipeVars, results, saved, calls,
                   priceVars, extVars>>

NextClient ==
    \/ \E p \in ClientCallers : ClientFetch(p)
    \/ \E p \in ClientCallers : ClientIssue(p)
    \/ \E p \in ClientCallers : ClientAttemptSucceeds(p)
    \/ \E p \in ClientCallers : ClientAttemptFails(p)
    \/ \E p \in ClientCallers : ClientAttemptOnClosed(p)
    \/ \E p \in ClientCallers : ClientWake(p)
    \/ ClientClose

(***************************************************************************)
(* Specifications.                                                         *)
(***************************************************************************)
Init == InitMain /\ IdlePrice /\ IdleExt
Next == NextMain
Spec == Init /\ [][Next]_vars

\* the event loop runs every coroutine that can run; an attempt ends, at the
\* latest by its timeout, and a sleep ends
FairSpec == Spec /\ WF_vars(Next)

InitNormalizer == IdleMain /\ InitPrice /\ IdleExt
SpecPrice == InitNormalizer /\ [][NextPrice]_vars

InitExtractor == IdleMain /\ IdlePrice /\ InitExt
SpecExtract == InitExtractor /\ [][NextExt]_vars

InitClientRun == InitClient /\ IdlePrice /\ IdleExt
SpecClient == InitClientRun /\ [][NextClient]_vars

(***************************************************************************)
(* Properties of the fetch layer and of main (specification Spec).         *)
(***************************************************************************)
SiteName(p) ==
    CASE p = "amazon"     -> "amazon.it"
      [] p = "phoneclick" -> "phoneclick.it"
      [] p = "teknozone"  -> "teknozone.it"

\* C1: a response with a 4xx/5xx status ends the fetch call at once: the
\* call has raised, no backoff wait follows the status error and no further
\* GET is issued, whatever RETRIES is.
C1_StatusErrorNotRetried ==
    \A p \in Sites :
        lastErr[p] = StatusError =>
            /\ pc[p] = "done"
            /\ response[p].type = "raise"
            /\ Len(waits[p]) = gets[p] - 1

\* C2: a fetch call that ends by raising after transient failures has made
\* exactly RETRIES attempts and raises the last transient error itself; a
\* call that returns a body made no attempt after the successful one.
C2_ExhaustedRaisesFinalError ==
    \A p \in Sites :
        pc[p] = "done" =>
            /\ (response[p].type = "raise" /\ lastErr[p] \in TransientErrors) =>
                   /\ gets[p] = retries
                   /\ response[p].exc = lastErr[p]
            /\ response[p].type = "return" =>
                   /\ gets[p] <= retries
                   /\ gets[p] = attempt[p]

RecordsOf(recs, site) == {i \in 1..Len(recs) : recs[i].site = site}

\* C4: what main persists holds exactly one record for every pipeline whose
\* fetch did not fail, the record its extractor produced, and none for a
\* pipeline whose fetch failed.
C4_OneRecordPerSurvivingPipeline ==
    mainpc = "end" =>
        \A p \in Sites :
            LET mine == RecordsOf(saved.records, SiteName(p))
            IN  IF response[p].type = "raise" THEN mine = {}
                ELSE /\ Cardinality(mine) = 1
                     /\ \A i \in mine : saved.records[i] = response[p].value

(***************************************************************************)
(* Properties of the price normalisation (specification SpecPrice).        *)
(***************************************************************************)
SameDecimal(a, b) ==
    \/ a.type = "InvalidOperation" /\ b.type = "InvalidOperation"
    \/ a.type = "Decimal" /\ b.type = "Decimal" /\ DecEq(a, b)

\* the cleaned text read with its rightmost separator as the decimal point
\* and the other separator stripped
RightmostAsDecimal(cleaned) ==
    LET seps  == {i \in 1..Len(cleaned) : cleaned[i] \in {".", ","}}
        last  == CHOOSE i \in seps : \A j \in seps : j <= i
        point == cleaned[last]
        other == IF point = "." THEN "," ELSE "."
    IN  Decimal(Replace(Replace(cleaned, <<other>>, <<>>), <<point>>, <<".">>))

Decimal1234_56 ==
    [type |-> "Decimal", int |-> <<"1", "2", "3", "4">>, frac |-> <<"5", "6">>]

\* C5: in the amazon normalisation of a text with both "." and ",", the
\* rightmost separator is the decimal point and the other one is stripped,
\* in both orders: "1.234,56" and "1,234.56" both give 1234.56.
C5_RightmostSeparatorIsDecimal ==
    amz # Unset =>
        LET cleaned == AmazonCleaned(Strip(text))
        IN  /\ (Contains(cleaned, ".") /\ Contains(cleaned, ",")) =>
                   SameDecimal(amz.dec, RightmostAsDecimal(cleaned))
            /\ text \in {TokEU, TokUS} => SameDecimal(amz.dec, Decimal1234_56)

\* the values of the price candidates of a text, in text order
CandidateValues(t) ==
    LET matches ==
            PRICE_REGEX_findall(
                Strip(Replace(Replace(t, <<NBSP>>, <<" ">>), NbspEntity, <<" ">>)))
    IN  [i \in 1..Len(matches) |-> MatchToDecimal(matches[i])]

\* C6: for a text with one or more price candidates parse_price returns the
\* rightmost candidate under 1000, and the last candidate when every
\* candidate is 1000 or more.
C6_LastUnderThresholdWins ==
    parsed # Unset =>
        LET vals  == CandidateValues(text)
            under == {i \in 1..Len(vals) : DecLessThan1000(vals[i])}
        IN  Len(vals) > 0 =>
                IF under # {}
                THEN parsed = vals[CHOOSE i \in under : \A j \in under : j <= i]
                ELSE parsed = vals[Len(vals)]

Decimal45_00 == [type |-> "Decimal", int |-> <<"4", "5">>, frac |-> <<"0", "0">>]

\* C6 witness: the candidates [1500, 45, 12000] have been parsed to 45
C6_Witness ==
    /\ text = Tok1500 \o Tok45 \o Tok12000
    /\ parsed = Decimal45_00

RoundTrips ==
    /\ parsed # Unset => (parsed.type = "Decimal" /\ DecEq(parsed, origin))
    /\ amz # Unset => (amz.dec.type = "Decimal" /\ DecEq(amz.dec, origin))

\* C8 as stated: the European rendering of a value with zero, one or two
\* decimal digits normalises back to the value, through parse_price and
\* through the amazon normalisation.
C8_RoundTripUpToTwoDecimals == origin.type = "Decimal" => RoundTrips

\* C8 amended: the European rendering of a value written with exactly two
\* decimal digits normalises back to the value, through parse_price and
\* through the amazon normalisation.
C8_RoundTripTwoDecimals ==
    (origin.type = "Decimal" /\ Len(origin.frac) = 2) => RoundTrips

\* C8 witness: "1.234,56" went through both normalisations and gave 1234.56
C8_Witness ==
    /\ origin = Decimal1234_56
    /\ text = TokEU
    /\ parsed # Unset /\ amz # Unset
    /\ DecEq(parsed, Decimal1234_56) /\ DecEq(amz.dec, Decimal1234_56)

(***************************************************************************)
(* Properties of the extractors (specification SpecExtract).               *)
(***************************************************************************)
HasDigit(t) == \E i \in 1..Len(t) : IsDigit(t[i])

RECURSIVE SelectSeq2(_, _)
SelectSeq2(ts, c) ==
    IF ts = <<>> THEN <<>>
    ELSE (IF Contains(Head(ts), c) THEN <<Head(ts)>> ELSE <<>>) \o SelectSeq2(Tail(ts), c)

\* the kinds of element the title strategies of a site look for
TitleSelectors(site) ==
    IF site = "amazon"
    THEN {"span#productTitle", "meta[og:title]", "title"} \cup H1Kinds
    ELSE H1Kinds

\* the texts a site's price resolution hands to the normalisation
PriceBearingTexts(site, nodes) ==
    CASE site = "amazon" ->
            IF Found(AmazonOffscreen(nodes)) THEN <<AmazonOffscreen(nodes).text>> ELSE <<>>
      [] site = "phoneclick" ->
            (IF Found(First(nodes, {"ins"})) THEN <<First(nodes, {"ins"}).text>> ELSE <<>>)
                \o SelectSeq2(StrippedStrings(nodes), EURO)
      [] site = "teknozone" -> TextsWithEuro(nodes)

\* C3: every extractor returns, for every fetched body, a record whose
\* title and price are non-empty; they are the two sentinels when no title
\* selector and no price selector matches.
C3_RecordAlwaysComplete ==
    \A site \in Sites :
        record[site] # Unset =>
            /\ record[site].type = "record"
            /\ record[site].title # <<>>
            /\ record[site].price # <<>>
            /\ ~Found(First(html.nodes, TitleSelectors(site))) =>
                   record[site].title = TitleNotFound
            /\ PriceBearingTexts(site, html.nodes) = <<>> =>
                   record[site].price = PriceNotFound

\* C7: when no price-bearing text of the page holds a digit, the record's
\* price is "Price not found" in every extractor.
C7_NoDigitsIsNotFound ==
    \A site \in Sites :
        (record[site] # Unset /\ record[site].type = "record") =>
            LET texts == PriceBearingTexts(site, html.nodes)
            IN  (\A i \in 1..Len(texts) : ~HasDigit(texts[i])) =>
                    record[site].price = PriceNotFound

\* the price of the first text of a sequence that the amazon normalisation
\* converts, or None
RECURSIVE FirstAmazonSuccess(_)
FirstAmazonSuccess(ts) ==
    IF ts = <<>> THEN None
    ELSE IF AmazonDec(Strip(Head(ts))).type = "Decimal"
         THEN [type |-> "price", price |-> AmazonPrice(Strip(Head(ts)))]
         ELSE FirstAmazonSuccess(Tail(ts))

\* the candidate texts of the three amazon price strategies, in order
AmazonStrategyTexts(nodes) ==
    LET s1 == First(nodes, {"span.a-price>span.a-offscreen"})
        s2 == First(nodes, {"#corePrice_desktop span.a-offscreen"})
        s3 == First(nodes, OffscreenKinds)
    IN  (IF Found(s1) THEN <<s1.text>> ELSE <<>>)
            \o (IF Found(s2) THEN <<s2.text>> ELSE <<>>)
            \o (IF Found(s3) THEN <<s3.text>> ELSE <<>>)

\* C9: the record carries the price of the first strategy whose candidate
\* normalises: in scrape_amazon a candidate that does not normalise leaves
\* the later selectors in play, in scrape_phoneclick an <ins> that does
\* not normalise leaves the full-page scan in play.
C9_LaterStrategyPriceUsed ==
    /\ (record["amazon"] # Unset /\ record["amazon"].type = "record") =>
           LET win == FirstAmazonSuccess(AmazonStrategyTexts(html.nodes))
           IN  win.type = "price" => record["amazon"].price = win.price
    /\ record["phoneclick"] # Unset =>
           LET ins_tag == First(html.nodes, {"ins"})
               scan    == CandidatePrices(StrippedStrings(html.nodes))
           IN  (Found(ins_tag) /\ parse_price(ins_tag.text).type = "None" /\ scan # <<>>) =>
                   record["phoneclick"].price # PriceNotFound

\* the texts the title strategies of a site yield, in the site's order
TitleStrategyTexts(site, nodes) ==
    LET txt(kinds) == IF Found(First(nodes, kinds))
                      THEN <<Strip(First(nodes, kinds).text)>> ELSE <<>>
        headTitle  == IF Found(First(nodes, {"title"}))
                      THEN <<Strip(BeforeFirstDelimiter(Strip(First(nodes, {"title"}).text)))>>
                      ELSE <<>>
    IN  CASE site = "amazon" ->
                txt({"span#productTitle"}) \o txt(H1Kinds) \o txt({"meta[og:title]"})
                    \o headTitle
          [] site = "phoneclick" -> txt({"h1.caratteretitolo"}) \o txt(H1Kinds)
          [] site = "teknozone"  -> txt({"h1.product-title"}) \o txt(H1Kinds)

RECURSIVE FirstNonEmpty(_)
FirstNonEmpty(ts) ==
    IF ts = <<>> THEN TitleNotFound
    ELSE IF Head(ts) # <<>> THEN Head(ts) ELSE FirstNonEmpty(Tail(ts))

\* C10: the title of every extractor is the text of the first strategy, in
\* the extractor's order, that yields non-empty text; a strategy whose
\* element has empty text is skipped; the title is "Title not found" when
\* no strategy yields non-empty text.
C10_FirstNonEmptyTitleWins ==
    \A site \in Sites :
        (record[site] # Unset /\ record[site].type = "record") =>
            record[site].title = FirstNonEmpty(TitleStrategyTexts(site, html.nodes))

NoCurrency(nodes) == \A i \in 1..Len(nodes) : ~Contains(nodes[i].text, EURO)

\* the element whose text a site's price resolution normalises whatever
\* the text holds
KnownPriceElement(site, nodes) ==
    CASE site = "amazon"     -> Found(AmazonOffscreen(nodes))
      [] site = "phoneclick" -> Found(First(nodes, {"ins"}))
      [] site = "teknozone"  -> FALSE

\* C11 as stated: a page without a currency symbol gives "Price not found"
\* in every extractor, and a title other than "Title not found" whenever
\* the page has an h1 element.
C11_NoCurrencyNoPrice ==
    \A site \in Sites :
        (record[site] # Unset /\ record[site].type = "record" /\ NoCurrency(html.nodes)) =>
            /\ record[site].price = PriceNotFound
            /\ Found(First(html.nodes, H1Kinds)) => record[site].title # TitleNotFound

\* C11 amended: a page without a currency symbol and without a known price
\* element (amazon: span.a-offscreen, phoneclick: <ins>) gives "Price not
\* found" in every extractor, and a title other than "Title not found"
\* whenever the first h1 element of the page has non-empty text.
C11_NoCurrencyNoPriceElement ==
    \A site \in Sites :
        (record[site] # Unset /\ record[site].type = "record" /\ NoCurrency(html.nodes)) =>
            /\ ~KnownPriceElement(site, html.nodes) => record[site].price = PriceNotFound
            /\ (/\ Found(First(html.nodes, H1Kinds))
                /\ GetTextStrip(First(html.nodes, H1Kinds)) # <<>>) =>
                   record[site].title # TitleNotFound

\* C11 witness: a page with an h1 and a bare number outside the known price
\* elements went through the three extractors
C11_Witness ==
    /\ html.nodes = <<[kind |-> "h1", text |-> TitleW], [kind |-> "p", text |-> PriceBare45]>>
    /\ \A site \in Sites :
          /\ record[site] # Unset
          /\ record[site].price = PriceNotFound
          /\ record[site].title = TitleW

\* a text made of the euro symbol followed by a European-format amount
\* (comma decimal, optional thousands dots), possibly followed by more text
IsEuroAmount(t) ==
    /\ Len(t) >= 2
    /\ t[1] = EURO
    /\ PriceRegexMatchAt(t, 2) # 0

\* the amount of such a text
EuroAmountOf(t) == SubSeq(t, 2, PriceRegexMatchAt(t, 2) - 1)

\* the positions of the span and strong elements holding such a text
EuroAmountElements(nodes) ==
    {i \in 1..Len(nodes) :
        /\ TagOf(nodes[i].kind) \in {"span", "strong"}
        /\ IsEuroAmount(GetTextStrip(nodes[i]))}

\* C12: for a page with an h1.product-title holding T and a span or strong
\* whose text is the euro symbol followed by a European-format amount A,
\* scrape_teknozone returns title T and the price "€" + the value of A with
\* two decimals, taken from the first such element in document order.
C12_TeknozoneEuropeanAmount ==
    LET nodes == html.nodes
        hits  == EuroAmountElements(nodes)
        first == CHOOSE i \in hits : \A j \in hits : i <= j
    IN  (/\ record["teknozone"] # Unset
         /\ Found(First(nodes, {"h1.product-title"}))
         /\ hits # {}) =>
            /\ record["teknozone"].title = GetTextStrip(First(nodes, {"h1.product-title"}))
            /\ record["teknozone"].price =
                   EuroPrice(MatchToDecimal(EuroAmountOf(GetTextStrip(nodes[first]))))

\* the full-page scan of scrape_phoneclick decides the price: <ins> gave no
\* price and the scan collected one candidate or more
FullPageScanDecides(nodes) ==
    LET ins_tag == First(nodes, {"ins"})
    IN  /\ Found(ins_tag) => parse_price(ins_tag.text).type = "None"
        /\ CandidatePrices(StrippedStrings(nodes)) # <<>>

\* C15 as stated: in the full-page scan of scrape_phoneclick the last
\* collected candidate under 1000 is chosen, and the last candidate only
\* when no candidate is under 1000.
C15_ScanLastUnderThreshold ==
    (record["phoneclick"] # Unset /\ FullPageScanDecides(html.nodes)) =>
        LET cands == CandidatePrices(StrippedStrings(html.nodes))
            under == {i \in 1..Len(cands) : DecLessThan1000(cands[i])}
        IN  record["phoneclick"].price =
                EuroPrice(IF under # {}
                          THEN cands[CHOOSE i \in under : \A j \in under : j <= i]
                          ELSE cands[Len(cands)])

\* C15 amended: in the full-page scan of scrape_phoneclick the last
\* collected candidate is chosen, whatever its magnitude.
C15_ScanLastCandidate ==
    (record["phoneclick"] # Unset /\ FullPageScanDecides(html.nodes)) =>
        LET cands == CandidatePrices(StrippedStrings(html.nodes))
        IN  record["phoneclick"].price = EuroPrice(cands[Len(cands)])

Decimal1234_56Price == <<EURO, "1", "2", "3", "4", ".", "5", "6">>

\* C15 witness: the scan collected [45.99, 1234.56] and the record holds the
\* last of them
C15_Witness ==
    /\ html.nodes = <<[kind |-> "p", text |-> PriceEuro45],
                      [kind |-> "p", text |-> PriceEuro1234]>>
    /\ record["phoneclick"] # Unset
    /\ record["phoneclick"].price = Decimal1234_56Price

\* C13: HTTPClient.close is idempotent: after any sequence of fetch and
\* close calls, every close leaves the session closed and released exactly
\* once, and a close on an already closed session performs no release and
\* changes nothing of the session or of the fetch calls.
C13_CloseIdempotent ==
    [][closeCalls' # closeCalls =>
          /\ closed' /\ releases' = 1
          /\ closed => UNCHANGED <<closed, releases, pipeVars, results, saved, calls>>]_vars

\* C13 witness: after a fetch call, close was called twice or more and the
\* session was released once
C13_Witness ==
    /\ mainpc = "client"
    /\ \E p \in ClientCallers : gets[p] >= 1
    /\ closeCalls >= 2 /\ closed /\ releases = 1

\* C14: within one fetch call the wait before retry attempt n+1 is
\* min(2^(n-1), 10): 1, 2, 4, 8, then 10 for every later retry; the wait
\* never exceeds 10 and never decreases.
C14_BackoffSchedule ==
    \A p \in Sites : \A n \in 1..Len(waits[p]) :
        /\ waits[p][n] = CASE n = 1 -> 1 [] n = 2 -> 2 [] n = 3 -> 4 [] n = 4 -> 8
                           [] OTHER -> 10
        /\ waits[p][n] <= 10
        /\ n > 1 => waits[p][n - 1] <= waits[p][n]

\* C14 witness: a fetch call has waited five times, the fifth wait being the
\* first that the cap of 10 shortens
C14_Witness ==
    \E p \in ClientCallers :
        /\ Len(waits[p]) >= 5
        /\ waits[p][4] = 8 /\ waits[p][5] = 10

\* C16: on every execution of main the session is eventually closed, exactly
\* once; the close happens only after the three pipelines have finished, no
\* attempt is made after it, and the snapshot and history are written only
\* after it.
C16_ClosedOnceAfterPipelines ==
    /\ [](releases <= 1 /\ closeCalls <= 1)
    /\ [](closed => releases = 1 /\ \A p \in Sites : pc[p] = "done")
    /\ [][closed => UNCHANGED <<gets, attempt, waits>>]_vars
    /\ [](mainpc = "end" => closed)
    /\ [][mainpc' = "end" /\ mainpc # "end" => closed]_vars
    /\ <>[](closed /\ releases = 1)

\* C16 witness: main has ended with one pipeline that returned a record and
\* one that raised, the session released once
C16_Witness ==
    /\ mainpc = "end" /\ closed /\ releases = 1
    /\ \E p, q \in Sites : response[p].type = "return" /\ response[q].type = "raise"

====
